---- MODULE Spec2Model ----
(***************************************************************************)
(* A model of skyline's gpu/buffer.cpp: the Buffer (guest/host             *)
(* synchronisation against FenceCycles, the views cache, destruction) and  *)
(* the BufferView locking protocol that stays correct while the view's     *)
(* buffer reference is atomically replaced.                                *)
(*                                                                         *)
(* Specifications                                                          *)
(*   SpecLock     BufferView::lock/try_lock/unlock by several threads; the *)
(*                buffer reference is replaced at any moment except while  *)
(*                a thread is between a successful lock()/try_lock() and   *)
(*                its unlock() (the pairing discipline of the callers).    *)
(*   SpecConv     the same threads; the reference is replaced only while   *)
(*                the referenced Buffer's mutex is free.                   *)
(*   SpecSwapHeld the same threads; the reference is replaced at any       *)
(*                moment, also inside a critical section.                  *)
(*   Spec         one Buffer: threads that lock it and call Synchronize*,  *)
(*                Write and GetView, the FenceCycles it is synchronised    *)
(*                against, the GPU, a thread that waits on and releases    *)
(*                the cycles, and the Buffer's destruction.                *)
(*   SpecView     one Buffer: GetView with every (offset, range, format)   *)
(*                and the release of views.                                *)
(***************************************************************************)
EXTENDS Integers, Sequences, FiniteSets, TLC

\* ------------------------------------------------------------------ bounds
NThreads == 2
NBuffers == 2
MaxSwaps == 2

NSyncThreads == 1
NCycles == 2
MaxVal == 1
MaxDeps == 2
MaxViews == 2
MaxSyncViews == 1

\* The guest regions of the Buffers whose construction and copies are checked
\* byte by byte: at most MaxRegions regions, each of a length in RegionSizes;
\* for the mirror, regions that start at an address up to MaxAddr, pages of
\* PageSize bytes.
MaxRegions == 2
MaxMirrorRegions == 3
MaxAddr == 3
PageSize == 2
RegionSizes == {1, 2}

\* The value of a mutex nobody owns.
NoThread == 0
\* The value of Buffer::cycle after cycle.reset().
NoCycle == 0

Threads == 1..NThreads
Buffers == 1..NBuffers

\* The threads that use the Buffer, and the thread that waits on FenceCycles
\* without being their submitter.
SyncThreads == 1..NSyncThreads
FenceThread == NSyncThreads + 1
Cycles == 1..NCycles
Vals == 0..MaxVal
\* A byte of the host backing that nothing has written since its allocation.
Uninit == 0 - 1

VARIABLES
    \* BufferView::buffer, the atomically replaceable reference to the Buffer
    buffer,
    \* per Buffer: the thread that owns its mutex, or NoThread
    mutex,
    \* per thread: the place in BufferView::lock / try_lock / unlock
    lpc,
    \* per thread: the locals `backing`, `latestBacking` and `success`
    backing, latest, success,
    \* per thread: the call that was made last ("lock" or "try")
    via,
    \* per thread: the Buffer BufferView::unlock() called unlock() on, and the
    \* Buffer the view referenced at that call
    relTarget, relOwning,
    \* history: the number of replacements of the reference so far, per thread
    \* those during its current lock()/try_lock() call and those since that call
    \* returned, and the Buffer the view referenced when the call began
    nswaps, swappedInCall, swappedHeld

VARIABLES
    \* the Buffer's mutex: the thread that owns it, or NoThread
    mutexOwner,
    \* Buffer::cycle, the weak reference to the pending FenceCycle, or NoCycle
    cycle,
    \* the contents of Buffer::backing and of the guest mappings
    hostData, guestData,
    \* Buffer::views: the weak references, each with its view's triple and
    \* whether the view is still alive (has holders)
    views,
    \* whether Buffer::alignedMirror is mapped
    mirrorMapped,
    \* whether the Buffer's owner (not a view, not a thread using it) holds it
    bref,
    \* the Buffer's life: "live", then ~Buffer entered ("dying"), its mutex
    \* taken ("dtor_locked"), SynchronizeGuest done ("dtor_synced"), "destroyed";
    \* and the thread that runs ~Buffer
    bstate, dthread,
    \* per FenceCycle: "pending" (GPU work outstanding), "signalled" (GPU work
    \* finished, dependencies not yet destroyed), "completing_wait" and
    \* "completing_copy" (the waiting thread is destroying the dependencies: it
    \* is before the WaitOnFence, or before the copy, of the next
    \* ~BufferGuestSync), "done", "dead" (destroyed)
    cstate,
    \* per FenceCycle: the number of BufferGuestSync objects attached to it
    deps,
    \* per thread using the Buffer: the place in its use of the Buffer, the
    \* cycle it passed, the view GetView returned last (an index of views, or
    \* 0) and the triple it asked for
    spc, sarg, sret, sreq,
    \* history: whether ~Buffer found GPU work outstanding
    dtorFence

VARIABLES
    \* guest.mappings: the guest regions, each with its address and its size
    mappings,
    \* the spans SetupGuestMappings passes to CreateMirror / CreateMirrors, and
    \* Buffer::mirror as the offset and size of its subspan of alignedMirror
    alignedMappings, mirror,
    \* history: the guest contents a thread found when it began
    \* SynchronizeHost(); SynchronizeGuest(), and the cycle its WaitOnFence()
    \* found pending
    before, waited

memVars == <<mappings, alignedMappings, mirror, before, waited>>

lockVars == <<buffer, mutex, lpc, backing, latest, success, via, relTarget,
              relOwning, nswaps, swappedInCall, swappedHeld>>

syncVars == <<mutexOwner, cycle, hostData, guestData, views, mirrorMapped, bref,
              bstate, dthread, cstate, deps, spc, sarg, sret, sreq, dtorFence>>

vars == <<lockVars, syncVars, memVars>>

\* ------------------------------------------------------- the Buffer mutex
\* Buffer::lock(): blocks until the mutex is free.
MutexFree(b) == mutex[b] = NoThread

\* Buffer::unlock() by thread t: the mutexes that may result.  Unlocking a
\* mutex the caller does not own is undefined: it is left as it was, or it is
\* released under its owner.
UnlockOutcomes(b, t) ==
    IF mutex[b] = t
    THEN {[mutex EXCEPT ![b] = NoThread]}
    ELSE {mutex, [mutex EXCEPT ![b] = NoThread]}

\* The Buffers whose mutex thread t owns.
Held(t) == {b \in Buffers : mutex[b] = t}

CallPcs == {"lock_acquire", "lock_check", "lock_release",
            "try_acquire", "try_check", "try_release"}

InitLock ==
    /\ buffer = 1
    /\ mutex = [b \in Buffers |-> NoThread]
    /\ lpc = [t \in Threads |-> "idle"]
    /\ backing = [t \in Threads |-> 1]
    /\ latest = [t \in Threads |-> 1]
    /\ success = [t \in Threads |-> FALSE]
    /\ via = [t \in Threads |-> "lock"]
    /\ relTarget = [t \in Threads |-> 1]
    /\ relOwning = [t \in Threads |-> 1]
    /\ nswaps = 0
    /\ swappedInCall = [t \in Threads |-> FALSE]
    /\ swappedHeld = [t \in Threads |-> FALSE]

\* ------------------------------------------------------- BufferView::lock
\* auto backing{std::atomic_load(&buffer)};
LockLoad(t) ==
    /\ UNCHANGED <<syncVars, memVars>>
    /\ lpc[t] = "idle"
    /\ Held(t) = {}
    /\ backing' = [backing EXCEPT ![t] = buffer]
    /\ latest' = [latest EXCEPT ![t] = buffer]
    /\ lpc' = [lpc EXCEPT ![t] = "lock_acquire"]
    /\ via' = [via EXCEPT ![t] = "lock"]
    /\ swappedInCall' = [swappedInCall EXCEPT ![t] = FALSE]
    /\ swappedHeld' = [swappedHeld EXCEPT ![t] = FALSE]
    /\ UNCHANGED <<buffer, mutex, success, relTarget, relOwning, nswaps>>

\* backing->lock();
LockAcquire(t) ==
    /\ UNCHANGED <<syncVars, memVars>>
    /\ lpc[t] = "lock_acquire"
    /\ MutexFree(backing[t])
    /\ mutex' = [mutex EXCEPT ![backing[t]] = t]
    /\ lpc' = [lpc EXCEPT ![t] = "lock_check"]
    /\ UNCHANGED <<buffer, backing, latest, success, via, relTarget, relOwning,
                   nswaps, swappedInCall, swappedHeld>>

\* A lock() that returns without comparing the re-loaded reference.
LockCheckNoCompare(t) ==
    /\ UNCHANGED <<syncVars, memVars>>
    /\ lpc[t] = "lock_check"
    /\ latest' = [latest EXCEPT ![t] = buffer]
    /\ lpc' = [lpc EXCEPT ![t] = "held"]
    /\ UNCHANGED <<buffer, mutex, backing, success, via, relTarget, relOwning,
                   nswaps, swappedInCall, swappedHeld>>

\* auto latestBacking{std::atomic_load(&buffer)};
\* if (backing == latestBacking) return;
\* The re-load is the call's last access to shared memory: the return is taken
\* with it.
LockCheck(t) ==
    /\ UNCHANGED <<syncVars, memVars>>
    /\ lpc[t] = "lock_check"
    /\ latest' = [latest EXCEPT ![t] = buffer]
    /\ lpc' = [lpc EXCEPT ![t] = IF backing[t] = buffer THEN "held"
                                                         ELSE "lock_release"]
    /\ UNCHANGED <<buffer, mutex, backing, success, via, relTarget, relOwning,
                   nswaps, swappedInCall, swappedHeld>>

\* A lock() that keeps the stale Buffer's mutex when it retries.
LockReleaseKeep(t) ==
    /\ UNCHANGED <<syncVars, memVars>>
    /\ lpc[t] = "lock_release"
    /\ backing' = [backing EXCEPT ![t] = latest[t]]
    /\ lpc' = [lpc EXCEPT ![t] = "lock_acquire"]
    /\ UNCHANGED <<buffer, mutex, latest, success, via, relTarget, relOwning,
                   nswaps, swappedInCall, swappedHeld>>

\* backing->unlock(); backing = latestBacking;
LockRelease(t) ==
    /\ UNCHANGED <<syncVars, memVars>>
    /\ lpc[t] = "lock_release"
    /\ mutex' \in UnlockOutcomes(backing[t], t)
    /\ backing' = [backing EXCEPT ![t] = latest[t]]
    /\ lpc' = [lpc EXCEPT ![t] = "lock_acquire"]
    /\ UNCHANGED <<buffer, latest, success, via, relTarget, relOwning,
                   nswaps, swappedInCall, swappedHeld>>

\* --------------------------------------------------- BufferView::try_lock
\* auto backing{std::atomic_load(&buffer)};
TryLoad(t) ==
    /\ UNCHANGED <<syncVars, memVars>>
    /\ lpc[t] = "idle"
    /\ Held(t) = {}
    /\ backing' = [backing EXCEPT ![t] = buffer]
    /\ latest' = [latest EXCEPT ![t] = buffer]
    /\ success' = [success EXCEPT ![t] = FALSE]
    /\ lpc' = [lpc EXCEPT ![t] = "try_acquire"]
    /\ via' = [via EXCEPT ![t] = "try"]
    /\ swappedInCall' = [swappedInCall EXCEPT ![t] = FALSE]
    /\ swappedHeld' = [swappedHeld EXCEPT ![t] = FALSE]
    /\ UNCHANGED <<buffer, mutex, relTarget, relOwning, nswaps>>

\* A try_lock() whose attempt waits for the mutex.
TryAcquireBlocking(t) ==
    /\ UNCHANGED <<syncVars, memVars>>
    /\ lpc[t] = "try_acquire"
    /\ MutexFree(backing[t])
    /\ success' = [success EXCEPT ![t] = TRUE]
    /\ mutex' = [mutex EXCEPT ![backing[t]] = t]
    /\ lpc' = [lpc EXCEPT ![t] = "try_check"]
    /\ UNCHANGED <<buffer, backing, latest, via, relTarget, relOwning,
                   nswaps, swappedInCall, swappedHeld>>

\* bool success{backing->try_lock()};
TryAcquire(t) ==
    /\ UNCHANGED <<syncVars, memVars>>
    /\ lpc[t] = "try_acquire"
    /\ success' = [success EXCEPT ![t] = MutexFree(backing[t])]
    /\ mutex' = IF MutexFree(backing[t])
                THEN [mutex EXCEPT ![backing[t]] = t]
                ELSE mutex
    /\ lpc' = [lpc EXCEPT ![t] = "try_check"]
    /\ UNCHANGED <<buffer, backing, latest, via, relTarget, relOwning,
                   nswaps, swappedInCall, swappedHeld>>

\* A try_lock() that returns the attempt's result without comparing the
\* re-loaded reference.
TryCheckNoCompare(t) ==
    /\ UNCHANGED <<syncVars, memVars>>
    /\ lpc[t] = "try_check"
    /\ latest' = [latest EXCEPT ![t] = buffer]
    /\ lpc' = [lpc EXCEPT ![t] = IF success[t] THEN "held" ELSE "failed"]
    /\ UNCHANGED <<buffer, mutex, backing, success, via, relTarget, relOwning,
                   nswaps, swappedInCall, swappedHeld>>

\* auto latestBacking{std::atomic_load(&buffer)};
\* if (backing == latestBacking) return success;
\* (a failed attempt on a stale Buffer has nothing to release:
\*  backing = latestBacking follows at once)
TryCheck(t) ==
    /\ UNCHANGED <<syncVars, memVars>>
    /\ lpc[t] = "try_check"
    /\ latest' = [latest EXCEPT ![t] = buffer]
    /\ IF backing[t] = buffer
       THEN /\ lpc' = [lpc EXCEPT ![t] = IF success[t] THEN "held" ELSE "failed"]
            /\ backing' = backing
       ELSE IF success[t]
       THEN /\ lpc' = [lpc EXCEPT ![t] = "try_release"]
            /\ backing' = backing
       ELSE /\ lpc' = [lpc EXCEPT ![t] = "try_acquire"]
            /\ backing' = [backing EXCEPT ![t] = buffer]
    /\ UNCHANGED <<buffer, mutex, success, via, relTarget, relOwning,
                   nswaps, swappedInCall, swappedHeld>>

\* A try_lock() that keeps the stale Buffer's mutex when it retries.
TryReleaseKeep(t) ==
    /\ UNCHANGED <<syncVars, memVars>>
    /\ lpc[t] = "try_release"
    /\ backing' = [backing EXCEPT ![t] = latest[t]]
    /\ lpc' = [lpc EXCEPT ![t] = "try_acquire"]
    /\ UNCHANGED <<buffer, mutex, latest, success, via, relTarget, relOwning,
                   nswaps, swappedInCall, swappedHeld>>

\* if (success) backing->unlock(); backing = latestBacking;
TryRelease(t) ==
    /\ UNCHANGED <<syncVars, memVars>>
    /\ lpc[t] = "try_release"
    /\ mutex' \in UnlockOutcomes(backing[t], t)
    /\ backing' = [backing EXCEPT ![t] = latest[t]]
    /\ lpc' = [lpc EXCEPT ![t] = "try_acquire"]
    /\ UNCHANGED <<buffer, latest, success, via, relTarget, relOwning,
                   nswaps, swappedInCall, swappedHeld>>

\* The caller of a try_lock() that returned false goes on without the lock.
TryFailed(t) ==
    /\ UNCHANGED <<syncVars, memVars>>
    /\ lpc[t] = "failed"
    /\ lpc' = [lpc EXCEPT ![t] = "idle"]
    /\ backing' = [backing EXCEPT ![t] = 1]
    /\ latest' = [latest EXCEPT ![t] = 1]
    /\ success' = [success EXCEPT ![t] = FALSE]
    /\ via' = [via EXCEPT ![t] = "lock"]
    /\ relTarget' = [relTarget EXCEPT ![t] = 1]
    /\ relOwning' = [relOwning EXCEPT ![t] = 1]
    /\ swappedInCall' = [swappedInCall EXCEPT ![t] = FALSE]
    /\ swappedHeld' = [swappedHeld EXCEPT ![t] = FALSE]
    /\ UNCHANGED <<buffer, mutex, nswaps>>

\* ----------------------------------------------------- BufferView::unlock
\* An unlock() of the Buffer the caller's lock()/try_lock() acquired.
UnlockAcquired(t) ==
    /\ UNCHANGED <<syncVars, memVars>>
    /\ lpc[t] = "held"
    /\ mutex' \in UnlockOutcomes(backing[t], t)
    /\ relTarget' = [relTarget EXCEPT ![t] = backing[t]]
    /\ relOwning' = [relOwning EXCEPT ![t] = buffer]
    /\ lpc' = [lpc EXCEPT ![t] = "released"]
    /\ UNCHANGED <<buffer, backing, latest, success, via, nswaps, swappedInCall,
                   swappedHeld>>

\* buffer->unlock();
Unlock(t) ==
    /\ UNCHANGED <<syncVars, memVars>>
    /\ lpc[t] = "held"
    /\ mutex' \in UnlockOutcomes(buffer, t)
    /\ relTarget' = [relTarget EXCEPT ![t] = buffer]
    /\ relOwning' = [relOwning EXCEPT ![t] = buffer]
    /\ lpc' = [lpc EXCEPT ![t] = "released"]
    /\ UNCHANGED <<buffer, backing, latest, success, via, nswaps, swappedInCall,
                   swappedHeld>>

\* The caller of unlock() goes on.
Unlocked(t) ==
    /\ UNCHANGED <<syncVars, memVars>>
    /\ lpc[t] = "released"
    /\ lpc' = [lpc EXCEPT ![t] = "idle"]
    /\ backing' = [backing EXCEPT ![t] = 1]
    /\ latest' = [latest EXCEPT ![t] = 1]
    /\ success' = [success EXCEPT ![t] = FALSE]
    /\ via' = [via EXCEPT ![t] = "lock"]
    /\ relTarget' = [relTarget EXCEPT ![t] = 1]
    /\ relOwning' = [relOwning EXCEPT ![t] = 1]
    /\ swappedInCall' = [swappedInCall EXCEPT ![t] = FALSE]
    /\ swappedHeld' = [swappedHeld EXCEPT ![t] = FALSE]
    /\ UNCHANGED <<buffer, mutex, nswaps>>

ViewStep(t) ==
    \/ LockLoad(t) \/ LockAcquire(t) \/ LockCheck(t) \/ LockRelease(t)
    \/ TryLoad(t) \/ TryAcquire(t) \/ TryCheck(t) \/ TryRelease(t)
    \/ TryFailed(t) \/ Unlock(t) \/ Unlocked(t)

\* ------------------------------------------- replacing the view's reference
\* std::atomic_store(&buffer, b) by whoever migrates the view to Buffer b.
Store(b) ==
    /\ UNCHANGED <<syncVars, memVars>>
    /\ b # buffer
    /\ nswaps < MaxSwaps
    /\ buffer' = b
    /\ nswaps' = nswaps + 1
    /\ swappedInCall' = [t \in Threads |-> swappedInCall[t] \/ lpc[t] \in CallPcs]
    /\ swappedHeld' = [t \in Threads |-> swappedHeld[t] \/ lpc[t] = "held"]
    /\ UNCHANGED <<mutex, lpc, backing, latest, success, via, relTarget,
                   relOwning>>

\* A replacement outside every critical section of the view.
SwapPaired(b) ==
    /\ \A t \in Threads : lpc[t] # "held"
    /\ Store(b)

\* A replacement while the referenced Buffer's mutex is free.
SwapFree(b) ==
    /\ MutexFree(buffer)
    /\ Store(b)

\* A replacement at any moment.
SwapAny(b) == Store(b)

\* A replacement outside every critical section of the view, one of any
\* number: it is not counted.
SwapChurn(b) ==
    /\ UNCHANGED <<syncVars, memVars>>
    /\ \A t \in Threads : lpc[t] # "held"
    /\ b # buffer
    /\ buffer' = b
    /\ swappedInCall' = [t \in Threads |-> swappedInCall[t] \/ lpc[t] \in CallPcs]
    /\ UNCHANGED <<mutex, lpc, backing, latest, success, via, relTarget,
                   relOwning, nswaps, swappedHeld>>

\* The steps of try_lock() after its first load.
TryStep(t) == TryAcquire(t) \/ TryCheck(t) \/ TryRelease(t)

\* The steps a thread takes when it can: those of a try_lock() under way,
\* those of a lock() that do not wait, and the unlock() of a holder.
CallStep(t) == TryStep(t) \/ LockCheck(t) \/ LockRelease(t) \/ Unlock(t)

\* =================================================================== Buffer
Offsets == {0, 1}
Ranges == {1, 2}
Formats == {1, 2}
Triples == Offsets \X Ranges \X Formats
\* The one triple the threads of Spec ask views for.
SyncTriples == {<<0, 1, 1>>}

\* util::AlignDown and util::AlignUp
AlignDown(a, p) == a - (a % p)
AlignUp(a, p) == AlignDown(a + p - 1, p)

\* GuestBuffer::BufferSize: the sum of the mappings' sizes.
RECURSIVE BufferSize(_)
BufferSize(m) == IF m = <<>> THEN 0 ELSE Head(m).size + BufferSize(Tail(m))

\* The middle mappings as SetupGuestMappings passes them on:
\* for (auto it{std::next(mappings.begin())}; it != std::prev(mappings.end()); ++it)
MiddleMappings(m) == SubSeq(m, 2, Len(m) - 1)

\* Buffer::SetupGuestMappings: the spans passed to CreateMirror (one mapping)
\* or CreateMirrors (several), and the subspan of alignedMirror that becomes
\* Buffer::mirror.
SetupGuestMappings(m) ==
    LET front == m[1]
        back == m[Len(m)]
        alignedData == AlignDown(front.addr, PageSize)
    IN  IF Len(m) = 1
        THEN [aligned |-> <<[addr |-> alignedData,
                             size |-> AlignUp(front.addr + front.size, PageSize)
                                          - alignedData]>>,
              mirror |-> [offset |-> front.addr - alignedData,
                          size |-> front.size]]
        ELSE [aligned |->
                  <<[addr |-> alignedData,
                     size |-> (front.addr + front.size) - alignedData]>>
                  \o MiddleMappings(m)
                  \o <<[addr |-> back.addr,
                        size |-> AlignUp(back.size, PageSize)]>>,
              mirror |-> [offset |-> front.addr - alignedData,
                          size |-> front.size + BufferSize(MiddleMappings(m))
                                       + back.size]]

\* The loop of SynchronizeHost and SynchronizeHostWithCycle, from mapping k on,
\* `at` bytes of the backing being written already:
\* std::memcpy(host, mapping.data(), mappingSize); host += mappingSize;
RECURSIVE CopyToHostFrom(_, _, _, _)
CopyToHostFrom(host, guest, k, at) ==
    IF k > Len(guest)
    THEN host
    ELSE LET mappingSize == Len(guest[k]) IN
         CopyToHostFrom(
             [i \in 1..Len(host) |->
                  IF at < i /\ i <= at + mappingSize THEN guest[k][i - at]
                                                     ELSE host[i]],
             guest, k + 1, at + mappingSize)

\* A copy of the first mapping only.
CopyToHostFirstOnly(host, guest) ==
    [i \in 1..Len(host) |-> IF i <= Len(guest[1]) THEN guest[1][i] ELSE host[i]]

CopyToHost(host, guest) == CopyToHostFrom(host, guest, 1, 0)

\* The loop of SynchronizeGuest:
\* std::memcpy(mapping.data(), host, mappingSize); host += mappingSize;
RECURSIVE CopyToGuestFrom(_, _, _, _)
CopyToGuestFrom(guest, host, k, at) ==
    IF k > Len(guest)
    THEN guest
    ELSE LET mappingSize == Len(guest[k]) IN
         CopyToGuestFrom(
             [guest EXCEPT ![k] = [i \in 1..mappingSize |-> host[at + i]]],
             host, k + 1, at + mappingSize)

\* A copy that reads every mapping from the start of the backing.
CopyToGuestNoAdvance(guest, host) ==
    [k \in 1..Len(guest) |-> [i \in 1..Len(guest[k]) |-> host[i]]]

CopyToGuest(guest, host) == CopyToGuestFrom(guest, host, 1, 0)

\* A byte written through the mirror at `offset`: the mirror aliases the guest
\* mappings one after the other.
RECURSIVE MirrorWrite(_, _, _, _)
MirrorWrite(guest, k, offset, v) ==
    IF k > Len(guest)
    THEN guest
    ELSE IF offset < Len(guest[k])
    THEN [guest EXCEPT ![k][offset + 1] = v]
    ELSE MirrorWrite(guest, k + 1, offset - Len(guest[k]), v)

\* The guest regions of the Buffer of Spec: one region of one byte.
SyncMappings == <<[addr |-> 0, size |-> 1]>>

\* What does not depend on the guest regions: nothing is locked, pending,
\* attached or cached.
InitFence ==
    /\ mutexOwner = NoThread
    /\ cycle = NoCycle
    /\ views = <<>>
    /\ bref = 1
    /\ before = [t \in SyncThreads |-> <<>>]
    /\ waited = [t \in SyncThreads |-> NoCycle]
    /\ dthread = NoThread
    /\ cstate = [c \in Cycles |-> "pending"]
    /\ deps = [c \in Cycles |-> 0]
    /\ spc = [t \in SyncThreads |-> "idle"]
    /\ sarg = [t \in SyncThreads |-> 1]
    /\ sret = [t \in SyncThreads |-> 0]
    /\ sreq = [t \in SyncThreads |-> <<0, 1, 1>>]
    /\ dtorFence = FALSE

\* A constructed Buffer: Buffer::Buffer has allocated the backing, set up the
\* mirror and copied the guest regions to the backing.
InitSync ==
    /\ InitFence
    /\ mappings = SyncMappings
    /\ guestData = <<<<0>>>>
    /\ hostData = CopyToHost(<<Uninit>>, guestData)
    /\ alignedMappings = SetupGuestMappings(mappings).aligned
    /\ mirror = SetupGuestMappings(mappings).mirror
    /\ mirrorMapped = TRUE
    /\ bstate = "live"

\* The Buffer's data as the functions below transform it; `blocked` says that
\* the call met a FenceCycle whose GPU work is outstanding, and cannot return.
Snapshot ==
    [cycle |-> cycle, guest |-> guestData, host |-> hostData, deps |-> deps,
     cstate |-> cstate, blocked |-> FALSE]

\* cycle.lock(): the pending FenceCycle, NoCycle when it is gone.
CycleLock(S) ==
    IF S.cycle # NoCycle /\ S.cstate[S.cycle] # "dead" THEN S.cycle ELSE NoCycle

RECURSIVE SynchronizeGuest(_, _)
RECURSIVE DestroyDependencies(_, _, _)

\* The completion actions of cycle c, run by thread a: each attached
\* BufferGuestSync is destroyed, ~BufferGuestSync() { buffer->SynchronizeGuest(); }
DestroyDependencies(S, c, a) ==
    IF S.deps[c] = 0 \/ S.blocked
    THEN S
    ELSE DestroyDependencies(
             SynchronizeGuest([S EXCEPT !.deps[c] = @ - 1], a), c, a)

Completing == {"completing_wait", "completing_copy"}

\* FenceCycle::Wait() by thread a: blocks until the GPU work of c has
\* finished; the completion actions have run when it returns (the first
\* waiter runs them, once; a Wait() from inside a completion action returns).
FenceWait(S, c, a) ==
    IF S.cstate[c] = "pending"
    THEN [S EXCEPT !.blocked = TRUE]
    ELSE IF S.cstate[c] = "signalled"
    THEN DestroyDependencies([S EXCEPT !.cstate[c] = "done"], c, a)
    ELSE IF S.cstate[c] \in Completing /\ a # FenceThread
    THEN [S EXCEPT !.blocked = TRUE]
    ELSE S

\* A WaitOnFence that clears the pending cycle without waiting for it.
WaitOnFenceNoWait(S, a) == [S EXCEPT !.cycle = NoCycle]

\* Buffer::WaitOnFence
WaitOnFence(S, a) ==
    LET lCycle == CycleLock(S) IN
    IF lCycle = NoCycle
    THEN S
    ELSE LET W == FenceWait(S, lCycle, a) IN
         IF W.blocked THEN W ELSE [W EXCEPT !.cycle = NoCycle]

\* Buffer::SynchronizeGuest, its loop: the host backing is copied to the
\* guest mappings.
GuestCopy(S, a) == [S EXCEPT !.guest = CopyToGuest(S.guest, S.host)]

\* Buffer::SynchronizeGuest
SynchronizeGuest(S, a) ==
    LET W == WaitOnFence(S, a) IN
    IF W.blocked THEN W ELSE GuestCopy(W, a)

\* Buffer::SynchronizeHost
SynchronizeHost(S, a) ==
    LET W == WaitOnFence(S, a) IN
    IF W.blocked THEN W ELSE [W EXCEPT !.host = CopyToHost(W.host, W.guest)]

\* A SynchronizeHostWithCycle that waits whatever cycle it is given.
SyncHostCycleAlwaysWait(S, pCycle, a) == SynchronizeHost(S, a)

\* Buffer::SynchronizeHostWithCycle
SynchronizeHostWithCycle(S, pCycle, a) ==
    LET W == IF pCycle # CycleLock(S) THEN WaitOnFence(S, a) ELSE S IN
    IF W.blocked THEN W ELSE [W EXCEPT !.host = CopyToHost(W.host, W.guest)]

\* A SynchronizeGuestWithCycle that waits whatever cycle it is given.
SyncGuestCycleAlwaysWait(S, pCycle, a) == WaitOnFence(S, a)

\* Buffer::SynchronizeGuestWithCycle, its first statement:
\* if (pCycle != cycle.lock()) WaitOnFence();
SyncGuestCycleWait(S, pCycle, a) ==
    IF pCycle # CycleLock(S) THEN WaitOnFence(S, a) ELSE S

\* FenceCycle::AttachObject: the completion action is attached; on a cycle
\* whose completion actions have run already, or are being run, it runs at
\* once.
AttachObject(S, c, a) ==
    IF S.cstate[c] \in Completing \cup {"done"}
    THEN SynchronizeGuest(S, a)
    ELSE [S EXCEPT !.deps[c] = @ + 1]

\* A SynchronizeGuestWithCycle that attaches its BufferGuestSync and leaves
\* Buffer::cycle as it was.
SyncGuestCycleAttachOnly(S, pCycle, a) == AttachObject(S, pCycle, a)

\* Buffer::SynchronizeGuestWithCycle, the rest:
\* pCycle->AttachObject(std::make_shared<BufferGuestSync>(shared_from_this()));
\* cycle = pCycle;
SyncGuestCycleAttach(S, pCycle, a) ==
    LET W == AttachObject(S, pCycle, a) IN
    IF W.blocked THEN W ELSE [W EXCEPT !.cycle = pCycle]

\* ~Buffer without its SynchronizeGuest.
DestructorNoSync(S, a) == S

\* Buffer::~Buffer, after the lock_guard: SynchronizeGuest(true);
DestructorSync(S, a) == SynchronizeGuest(S, a)

\* A view equal to the request in offset and range, whatever its format.
ViewMatchesNoFormat(v, offset, range, format) ==
    v.live /\ v.offset = offset /\ v.range = range

\* Buffer::GetView, the test of one cache entry:
\* view && view->offset == offset && view->range == range && view->format == format
ViewMatches(v, offset, range, format) ==
    v.live /\ v.offset = offset /\ v.range = range /\ v.format = format

\* Buffer::GetView, the scan: the first entry that matches, 0 when none does.
FindView(vs, offset, range, format) ==
    LET hits == {i \in 1..Len(vs) : ViewMatches(vs[i], offset, range, format)} IN
    IF hits = {} THEN 0 ELSE CHOOSE i \in hits : \A j \in hits : i <= j

LiveViews(vs) == {i \in 1..Len(vs) : vs[i].live}

RECURSIVE SumDeps(_, _)
SumDeps(dp, cs) ==
    IF cs = {} THEN 0
    ELSE LET c == CHOOSE x \in cs : TRUE IN dp[c] + SumDeps(dp, cs \ {c})

\* The shared owners of the Buffer without the BufferGuestSync objects.
RefCountNoSync(br, vs, dp, sp) ==
    br + Cardinality(LiveViews(vs))
       + Cardinality({t \in SyncThreads : sp[t] # "idle"})

\* The shared owners of the Buffer: its owner, the live BufferViews
\* (BufferView::buffer), the BufferGuestSync objects (BufferGuestSync::buffer)
\* and the threads that are using it.
RefCount(br, vs, dp, sp) ==
    br + Cardinality(LiveViews(vs)) + SumDeps(dp, Cycles)
       + Cardinality({t \in SyncThreads : sp[t] # "idle"})

\* Thread a is running ~Buffer.
Busy(a) == dthread = a /\ bstate \in {"dying", "dtor_locked", "dtor_synced"}

\* When a step by thread a drops the last shared owner, a enters ~Buffer.
Reap(a) ==
    IF bstate = "live" /\ RefCount(bref', views', deps', spc') = 0
    THEN bstate' = "dying" /\ dthread' = a
    ELSE UNCHANGED <<bstate, dthread>>

\* FenceCycles are numbered in the order of their first use: a cycle nothing
\* has happened to yet is used only when every cycle before it has been.
Fresh(c) ==
    /\ cstate[c] = "pending" /\ deps[c] = 0 /\ cycle # c
    /\ \A t \in SyncThreads : ~(spc[t] \in {"sgwc_attach", "shwc_set"} /\ sarg[t] = c)

InOrder(c) == Fresh(c) => \A d \in Cycles : d < c => ~Fresh(d)

Apply(S) ==
    /\ ~S.blocked
    /\ cycle' = S.cycle
    /\ guestData' = S.guest
    /\ hostData' = S.host
    /\ deps' = S.deps
    /\ cstate' = S.cstate

\* ---------------------------------------------------- threads using the Buffer
\* Buffer::lock() by a thread that holds the Buffer (through its owner or a view).
DoLock(t) ==
    /\ spc[t] = "idle" /\ ~Busy(t)
    /\ bstate = "live"
    /\ bref = 1 \/ LiveViews(views) # {}
    /\ mutexOwner = NoThread
    /\ mutexOwner' = t
    /\ spc' = [spc EXCEPT ![t] = "locked"]
    /\ UNCHANGED <<cycle, hostData, guestData, views, mirrorMapped, bref, bstate,
                   dthread, cstate, deps, sarg, sret, sreq, dtorFence>>
    /\ UNCHANGED <<lockVars, memVars>>

\* Buffer::unlock(); the thread lets go of the Buffer and of the view it got.
DoUnlock(t) ==
    /\ spc[t] = "locked"
    /\ mutexOwner' = NoThread
    /\ spc' = [spc EXCEPT ![t] = "idle"]
    /\ sret' = [sret EXCEPT ![t] = 0]
    /\ sreq' = [sreq EXCEPT ![t] = <<0, 1, 1>>]
    /\ UNCHANGED <<cycle, hostData, guestData, views, mirrorMapped, bref,
                   cstate, deps, sarg, dtorFence>>
    /\ Reap(t)
    /\ UNCHANGED <<lockVars, memVars>>

DoSynchronizeHost(t) ==
    /\ spc[t] = "locked"
    /\ Apply(SynchronizeHost(Snapshot, t))
    /\ UNCHANGED <<mutexOwner, views, mirrorMapped, bref, bstate, dthread, spc,
                   sarg, sret, sreq, dtorFence>>
    /\ UNCHANGED <<lockVars, memVars>>

DoSynchronizeGuest(t) ==
    /\ spc[t] = "locked"
    /\ Apply(SynchronizeGuest(Snapshot, t))
    /\ UNCHANGED <<mutexOwner, views, mirrorMapped, bref, bstate, dthread, spc,
                   sarg, sret, sreq, dtorFence>>
    /\ UNCHANGED <<lockVars, memVars>>

DoSynchronizeHostWithCycle(t, c) ==
    /\ spc[t] = "locked"
    /\ cstate[c] # "dead"
    /\ InOrder(c)
    /\ Apply(SynchronizeHostWithCycle(Snapshot, c, t))
    /\ spc' = [spc EXCEPT ![t] = "shwc_set"]
    /\ sarg' = [sarg EXCEPT ![t] = c]
    /\ UNCHANGED <<mutexOwner, views, mirrorMapped, bref, bstate, dthread,
                   sret, sreq, dtorFence>>
    /\ UNCHANGED <<lockVars, memVars>>

\* The caller of SynchronizeHostWithCycle(c) makes c the pending cycle.
DoSetPendingCycle(t) ==
    /\ spc[t] = "shwc_set"
    /\ cycle' = sarg[t]
    /\ spc' = [spc EXCEPT ![t] = "locked"]
    /\ sarg' = [sarg EXCEPT ![t] = 1]
    /\ UNCHANGED <<mutexOwner, hostData, guestData, views, mirrorMapped, bref,
                   bstate, dthread, cstate, deps, sret, sreq, dtorFence>>
    /\ UNCHANGED <<lockVars, memVars>>

DoSyncGuestCycleWait(t, c) ==
    /\ spc[t] = "locked"
    /\ cstate[c] # "dead"
    /\ InOrder(c)
    /\ Apply(SyncGuestCycleWait(Snapshot, c, t))
    /\ spc' = [spc EXCEPT ![t] = "sgwc_attach"]
    /\ sarg' = [sarg EXCEPT ![t] = c]
    /\ UNCHANGED <<mutexOwner, views, mirrorMapped, bref, bstate, dthread,
                   sret, sreq, dtorFence>>
    /\ UNCHANGED <<lockVars, memVars>>

DoSyncGuestCycleAttach(t) ==
    /\ spc[t] = "sgwc_attach"
    /\ deps[sarg[t]] < MaxDeps
    /\ Apply(SyncGuestCycleAttach(Snapshot, sarg[t], t))
    /\ spc' = [spc EXCEPT ![t] = "locked"]
    /\ sarg' = [sarg EXCEPT ![t] = 1]
    /\ UNCHANGED <<mutexOwner, views, mirrorMapped, bref, bstate, dthread,
                   sret, sreq, dtorFence>>
    /\ UNCHANGED <<lockVars, memVars>>

\* Buffer::Write: std::memcpy(mirror.data() + offset, data.data(), data.size());
DoWrite(t, offset, v) ==
    /\ spc[t] = "locked"
    /\ MirrorWrite(guestData, 1, offset, v) # guestData
    /\ guestData' = MirrorWrite(guestData, 1, offset, v)
    /\ UNCHANGED <<mutexOwner, cycle, hostData, views, mirrorMapped, bref, bstate,
                   dthread, cstate, deps, spc, sarg, sret, sreq, dtorFence>>
    /\ UNCHANGED <<lockVars, memVars>>

\* Buffer::GetView
DoGetView(t, offset, range, format) ==
    /\ spc[t] = "locked"
    /\ LET found == FindView(views, offset, range, format) IN
       IF found # 0
       THEN /\ views' = views
            /\ sret' = [sret EXCEPT ![t] = found]
       ELSE /\ Len(views) < MaxViews
            /\ views' = Append(views, [offset |-> offset, range |-> range,
                                       format |-> format, live |-> TRUE])
            /\ sret' = [sret EXCEPT ![t] = Len(views) + 1]
    /\ sreq' = [sreq EXCEPT ![t] = <<offset, range, format>>]
    /\ UNCHANGED <<mutexOwner, cycle, hostData, guestData, mirrorMapped, bref,
                   bstate, dthread, cstate, deps, spc, sarg, dtorFence>>
    /\ UNCHANGED <<lockVars, memVars>>

\* The holders of view i let go of it: the BufferView is destroyed, its weak
\* reference stays in Buffer::views.
DoReleaseView(t, i) ==
    /\ spc[t] = "idle" /\ ~Busy(t)
    /\ i \in LiveViews(views)
    /\ \A u \in SyncThreads : sret[u] # i
    /\ views' = [views EXCEPT ![i].live = FALSE]
    /\ UNCHANGED <<mutexOwner, cycle, hostData, guestData, mirrorMapped, bref,
                   cstate, deps, spc, sarg, sret, sreq, dtorFence>>
    /\ Reap(t)
    /\ UNCHANGED <<lockVars, memVars>>

\* The Buffer's owner lets go of it.
DoReleaseBuffer(t) ==
    /\ spc[t] = "idle" /\ ~Busy(t)
    /\ bref = 1
    /\ bref' = 0
    /\ UNCHANGED <<mutexOwner, cycle, hostData, guestData, views, mirrorMapped,
                   cstate, deps, spc, sarg, sret, sreq, dtorFence>>
    /\ Reap(t)
    /\ UNCHANGED <<lockVars, memVars>>

\* ------------------------------------------------------------------ ~Buffer
\* std::lock_guard lock(*this);
DtorLock ==
    /\ bstate = "dying"
    /\ mutexOwner = NoThread
    /\ mutexOwner' = dthread
    /\ bstate' = "dtor_locked"
    /\ dtorFence' = (CycleLock(Snapshot) # NoCycle
                       /\ cstate[CycleLock(Snapshot)] = "pending")
    /\ UNCHANGED <<cycle, hostData, guestData, views, mirrorMapped, bref, dthread,
                   cstate, deps, spc, sarg, sret, sreq>>
    /\ UNCHANGED <<lockVars, memVars>>

\* SynchronizeGuest(true);
DtorSync ==
    /\ bstate = "dtor_locked"
    /\ Apply(DestructorSync(Snapshot, dthread))
    /\ bstate' = "dtor_synced"
    /\ UNCHANGED <<mutexOwner, views, mirrorMapped, bref, dthread, spc, sarg,
                   sret, sreq, dtorFence>>
    /\ UNCHANGED <<lockVars, memVars>>

\* if (alignedMirror.valid()) munmap(...); then the lock_guard unlocks.
DtorUnmap ==
    /\ bstate = "dtor_synced"
    /\ mirrorMapped' = FALSE
    /\ mutexOwner' = NoThread
    /\ bstate' = "destroyed"
    /\ dthread' = NoThread
    /\ UNCHANGED <<cycle, hostData, guestData, views, bref, cstate, deps, spc,
                   sarg, sret, sreq, dtorFence>>
    /\ UNCHANGED <<lockVars, memVars>>

\* -------------------------------------------------------- FenceCycle and GPU
\* The GPU work of cycle c finishes.
GpuSignal(c) ==
    /\ cstate[c] = "pending"
    /\ InOrder(c)
    /\ cstate' = [cstate EXCEPT ![c] = "signalled"]
    /\ UNCHANGED <<mutexOwner, cycle, hostData, guestData, views, mirrorMapped,
                   bref, bstate, dthread, deps, spc, sarg, sret, sreq, dtorFence>>
    /\ UNCHANGED <<lockVars, memVars>>

\* The GPU work of the pending cycle writes a byte of the host backing.
GpuWrite(offset, v) ==
    /\ bstate # "destroyed"
    /\ CycleLock(Snapshot) # NoCycle
    /\ cstate[CycleLock(Snapshot)] = "pending"
    /\ v # hostData[offset + 1]
    /\ hostData' = [hostData EXCEPT ![offset + 1] = v]
    /\ UNCHANGED <<mutexOwner, cycle, guestData, views, mirrorMapped, bref,
                   bstate, dthread, cstate, deps, spc, sarg, sret, sreq, dtorFence>>
    /\ UNCHANGED <<lockVars, memVars>>

\* FenceCycle::Wait() on c by a thread that is not using the Buffer: the GPU
\* work has finished, the thread starts to destroy c's dependencies.
DoCycleWait(c) ==
    /\ ~Busy(FenceThread)
    /\ \A d \in Cycles : cstate[d] \notin Completing
    /\ cstate[c] = "signalled"
    /\ cstate' = [cstate EXCEPT ![c] = IF deps[c] = 0 THEN "done"
                                                       ELSE "completing_wait"]
    /\ UNCHANGED <<mutexOwner, cycle, hostData, guestData, views, mirrorMapped,
                   bref, bstate, dthread, deps, spc, sarg, sret, sreq, dtorFence>>
    /\ UNCHANGED <<lockVars, memVars>>

\* ~BufferGuestSync() { buffer->SynchronizeGuest(); } on the waiting thread:
\* the WaitOnFence() of that SynchronizeGuest.
DeferredWaitOnFence(c) ==
    /\ cstate[c] = "completing_wait"
    /\ Apply([WaitOnFence(Snapshot, FenceThread) EXCEPT
                  !.cstate[c] = "completing_copy"])
    /\ UNCHANGED <<mutexOwner, views, mirrorMapped, bref, bstate, dthread, spc,
                   sarg, sret, sreq, dtorFence>>
    /\ UNCHANGED <<lockVars, memVars>>

\* The copy of that SynchronizeGuest; the BufferGuestSync is gone after it,
\* and with it its hold on the Buffer.
DeferredCopy(c) ==
    /\ cstate[c] = "completing_copy"
    /\ Apply([GuestCopy(Snapshot, FenceThread) EXCEPT
                  !.deps[c] = @ - 1,
                  !.cstate[c] = IF deps[c] = 1 THEN "done" ELSE "completing_wait"])
    /\ UNCHANGED <<mutexOwner, views, mirrorMapped, bref, spc, sarg, sret, sreq,
                   dtorFence>>
    /\ Reap(FenceThread)
    /\ UNCHANGED <<lockVars, memVars>>

\* The holders of cycle c, whose dependencies are destroyed, let go of it: the
\* Buffer's weak reference to it expires.
DoReleaseCycle(c) ==
    /\ cycle = c
    /\ cstate[c] = "done" \/ (cstate[c] = "signalled" /\ deps[c] = 0)
    /\ \A t \in SyncThreads : ~(spc[t] \in {"sgwc_attach", "shwc_set"} /\ sarg[t] = c)
    /\ cstate' = [cstate EXCEPT ![c] = "dead"]
    /\ UNCHANGED <<mutexOwner, cycle, hostData, guestData, views, mirrorMapped,
                   bref, bstate, dthread, deps, spc, sarg, sret, sreq, dtorFence>>
    /\ UNCHANGED <<lockVars, memVars>>

\* --------------------------------------------------- Buffer::Buffer, by bytes
\* The guest region sets a Buffer is constructed from: up to n regions, each
\* of a size in RegionSizes, apart from each other.
RegionSets(n) ==
    UNION {{[k \in 1..len |-> [addr |-> 2 * PageSize * (k - 1), size |-> sizes[k]]] :
                sizes \in [1..len -> RegionSizes]} : len \in 1..n}

\* The contents guest regions m can have.
GuestContents(m) ==
    {g \in [1..Len(m) -> UNION {[1..n -> Vals] : n \in RegionSizes}] :
         \A k \in 1..Len(m) : Len(g[k]) = m[k].size}

\* Before Buffer::Buffer: guest regions with any contents, no backing, no
\* mirror.
InitMem ==
    /\ InitFence
    /\ mappings \in RegionSets(MaxRegions)
    /\ guestData \in GuestContents(mappings)
    /\ hostData = <<>>
    /\ alignedMappings = <<>>
    /\ mirror = [offset |-> 0, size |-> 0]
    /\ mirrorMapped = FALSE
    /\ bstate = "unbuilt"

\* Buffer::Buffer, the member initialisers:
\* size(guest.BufferSize()), backing(gpu.memory.AllocateBuffer(size))
CtorAllocate ==
    /\ bstate = "unbuilt"
    /\ bstate' = "allocated"
    /\ hostData' = [i \in 1..BufferSize(mappings) |-> Uninit]
    /\ UNCHANGED <<mutexOwner, cycle, guestData, views, mirrorMapped, bref,
                   dthread, cstate, deps, spc, sarg, sret, sreq, dtorFence>>
    /\ UNCHANGED <<lockVars, memVars>>

\* Buffer::Buffer: SetupGuestMappings();
CtorSetupGuestMappings ==
    /\ bstate = "allocated"
    /\ bstate' = "mirrored"
    /\ alignedMappings' = SetupGuestMappings(mappings).aligned
    /\ mirror' = SetupGuestMappings(mappings).mirror
    /\ mirrorMapped' = TRUE
    /\ UNCHANGED <<mutexOwner, cycle, hostData, guestData, views, bref, dthread,
                   cstate, deps, spc, sarg, sret, sreq, dtorFence>>
    /\ UNCHANGED <<lockVars, mappings, before, waited>>

\* Buffer::Buffer: SynchronizeHost(); the constructor is over.
CtorSynchronizeHost ==
    /\ bstate = "mirrored"
    /\ bstate' = "constructed"
    /\ Apply(SynchronizeHost(Snapshot, NoThread))
    /\ UNCHANGED <<mutexOwner, views, mirrorMapped, bref, dthread, spc, sarg,
                   sret, sreq, dtorFence>>
    /\ UNCHANGED <<lockVars, memVars>>

\* The constructed Buffer is handed to its owner: from now on it can be used.
CtorReturn ==
    /\ bstate = "constructed"
    /\ bstate' = "live"
    /\ UNCHANGED <<mutexOwner, cycle, hostData, guestData, views, mirrorMapped,
                   bref, dthread, cstate, deps, spc, sarg, sret, sreq, dtorFence>>
    /\ UNCHANGED <<lockVars, memVars>>

\* The guest region sets SetupGuestMappings can be given: up to
\* MaxMirrorRegions regions, each with any start address up to MaxAddr and a
\* size in RegionSizes.
MirrorRegionSets ==
    UNION {[1..len -> [addr : 0..MaxAddr, size : RegionSizes]] :
               len \in 1..MaxMirrorRegions}

\* Before Buffer::Buffer over any of these region sets, guest memory zeroed.
InitMirror ==
    /\ InitLock
    /\ InitFence
    /\ mappings \in MirrorRegionSets
    /\ guestData = [k \in 1..Len(mappings) |-> [i \in 1..mappings[k].size |-> 0]]
    /\ hostData = <<>>
    /\ alignedMappings = <<>>
    /\ mirror = [offset |-> 0, size |-> 0]
    /\ mirrorMapped = FALSE
    /\ bstate = "unbuilt"

\* ------------------------- SynchronizeHost(); SynchronizeGuest(); by a caller
\* SynchronizeHost() by a thread that calls SynchronizeGuest() next.
DoRoundTripHost(t) ==
    /\ spc[t] = "locked"
    /\ Apply(SynchronizeHost(Snapshot, t))
    /\ spc' = [spc EXCEPT ![t] = "round_trip"]
    /\ before' = [before EXCEPT ![t] = guestData]
    /\ waited' = [waited EXCEPT ![t] = CycleLock(Snapshot)]
    /\ UNCHANGED <<mutexOwner, views, mirrorMapped, bref, bstate, dthread, sarg,
                   sret, sreq, dtorFence>>
    /\ UNCHANGED <<lockVars, mappings, alignedMappings, mirror>>

\* The SynchronizeGuest() that follows it.
DoRoundTripGuest(t) ==
    /\ spc[t] = "round_trip"
    /\ Apply(SynchronizeGuest(Snapshot, t))
    /\ spc' = [spc EXCEPT ![t] = "round_tripped"]
    /\ UNCHANGED <<mutexOwner, views, mirrorMapped, bref, bstate, dthread, sarg,
                   sret, sreq, dtorFence>>
    /\ UNCHANGED <<lockVars, memVars>>

\* The thread goes on.
DoRoundTripEnd(t) ==
    /\ spc[t] = "round_tripped"
    /\ spc' = [spc EXCEPT ![t] = "locked"]
    /\ before' = [before EXCEPT ![t] = <<>>]
    /\ waited' = [waited EXCEPT ![t] = NoCycle]
    /\ UNCHANGED <<mutexOwner, cycle, hostData, guestData, views, mirrorMapped,
                   bref, bstate, dthread, cstate, deps, sarg, sret, sreq,
                   dtorFence>>
    /\ UNCHANGED <<lockVars, mappings, alignedMappings, mirror>>

\* ------------------------------------------------- WaitOnFence() by a caller
DoWaitOnFence(t) ==
    /\ spc[t] = "locked"
    /\ Apply(WaitOnFence(Snapshot, t))
    /\ spc' = [spc EXCEPT ![t] = "waited"]
    /\ waited' = [waited EXCEPT ![t] = CycleLock(Snapshot)]
    /\ UNCHANGED <<mutexOwner, views, mirrorMapped, bref, bstate, dthread, sarg,
                   sret, sreq, dtorFence>>
    /\ UNCHANGED <<lockVars, mappings, alignedMappings, mirror, before>>

\* The thread goes on.
DoWaitOnFenceEnd(t) ==
    /\ spc[t] = "waited"
    /\ spc' = [spc EXCEPT ![t] = "locked"]
    /\ waited' = [waited EXCEPT ![t] = NoCycle]
    /\ UNCHANGED <<mutexOwner, cycle, hostData, guestData, views, mirrorMapped,
                   bref, bstate, dthread, cstate, deps, sarg, sret, sreq,
                   dtorFence>>
    /\ UNCHANGED <<lockVars, mappings, alignedMappings, mirror, before>>

Init == InitLock /\ InitSync
InitBuilding == InitLock /\ InitMem

\* The offsets of the Buffer's bytes.
ByteOffsets == 0..(BufferSize(mappings) - 1)

NextSync ==
    \/ \E t \in SyncThreads :
          \/ DoLock(t) \/ DoUnlock(t)
          \/ DoSynchronizeHost(t) \/ DoSynchronizeGuest(t)
          \/ DoWaitOnFence(t) \/ DoWaitOnFenceEnd(t)
          \/ \E c \in Cycles : DoSynchronizeHostWithCycle(t, c)
          \/ DoSetPendingCycle(t)
          \/ \E c \in Cycles : DoSyncGuestCycleWait(t, c)
          \/ DoSyncGuestCycleAttach(t)
          \/ \E o \in ByteOffsets, v \in Vals : DoWrite(t, o, v)
          \/ \E tr \in SyncTriples :
                /\ FindView(views, tr[1], tr[2], tr[3]) # 0 \/ Len(views) < MaxSyncViews
                /\ DoGetView(t, tr[1], tr[2], tr[3])
          \/ \E i \in 1..MaxViews : DoReleaseView(t, i)
          \/ DoReleaseBuffer(t)
    \/ DtorLock \/ DtorSync \/ DtorUnmap
    \/ \E c \in Cycles :
          \/ GpuSignal(c) \/ DoCycleWait(c) \/ DeferredWaitOnFence(c)
          \/ DeferredCopy(c) \/ DoReleaseCycle(c)
    \/ \E o \in ByteOffsets, v \in Vals : GpuWrite(o, v)

NextView ==
    \E t \in SyncThreads :
        \/ DoLock(t) \/ DoUnlock(t)
        \/ \E tr \in Triples : DoGetView(t, tr[1], tr[2], tr[3])
        \/ \E i \in 1..MaxViews : DoReleaseView(t, i)

\* The construction of a Buffer, alone.
NextMirror ==
    CtorAllocate \/ CtorSetupGuestMappings \/ CtorSynchronizeHost \/ CtorReturn

\* The construction of a Buffer over any guest regions, and threads that
\* synchronise it to the host and back, with and without a cycle pending.
NextMem ==
    \/ CtorAllocate \/ CtorSetupGuestMappings \/ CtorSynchronizeHost \/ CtorReturn
    \/ \E t \in SyncThreads :
          \/ DoLock(t) \/ DoUnlock(t)
          \/ DoRoundTripHost(t) \/ DoRoundTripGuest(t) \/ DoRoundTripEnd(t)
          \/ \E c \in Cycles : DoSynchronizeHostWithCycle(t, c)
          \/ DoSetPendingCycle(t)
    \/ \E c \in Cycles : GpuSignal(c)

Spec == Init /\ [][NextSync]_vars
SpecMirror == InitMirror /\ [][NextMirror]_vars

SpecMem == InitBuilding /\ [][NextMem]_vars
SpecView == Init /\ [][NextView]_vars

NextLock ==
    \/ \E t \in Threads : ViewStep(t)
    \/ \E b \in Buffers : SwapPaired(b)

NextConv ==
    \/ \E t \in Threads : ViewStep(t)
    \/ \E b \in Buffers : SwapFree(b)

NextSwapHeld ==
    \/ \E t \in Threads : ViewStep(t)
    \/ \E b \in Buffers : SwapAny(b)

NextLive ==
    \/ \E t \in Threads : ViewStep(t)
    \/ \E b \in Buffers : SwapChurn(b)

\* Every thread goes on with a call it is in and every holder unlocks; a
\* lock() that waits for a mutex gets it when it is free again and again.
Fairness ==
    \A t \in Threads : WF_vars(CallStep(t)) /\ SF_vars(LockAcquire(t))

SpecLock == Init /\ [][NextLock]_vars
SpecLive == Init /\ [][NextLive]_vars /\ Fairness
SpecConv == Init /\ [][NextConv]_vars
SpecSwapHeld == Init /\ [][NextSwapHeld]_vars

\* ------------------------------------------------------------------ claims

\* C1: when owning_buffer is replaced (B1 -> B2) by another thread while a
\* thread is inside BufferView::lock(), the call returns with the mutex of the
\* Buffer now referenced (B2) held by the caller, and with no other Buffer
\* mutex held by it: not B1's, and never both.
C1_LockEndsOnReplacement ==
    \A t \in Threads :
        (lpc[t] = "held" /\ via[t] = "lock" /\ swappedInCall[t]) =>
            /\ mutex[buffer] = t
            /\ \A b \in Buffers \ {buffer} : mutex[b] # t
            /\ backing[t] = buffer

\* A lock() that saw the reference replaced and returned holding the mutex of
\* the Buffer referenced now, while another Buffer's mutex is in other hands.
C1_Witness ==
    \E t \in Threads :
        /\ lpc[t] = "held" /\ via[t] = "lock" /\ swappedInCall[t]
        /\ mutex[buffer] = t
        /\ \E b \in Buffers \ {buffer} : mutex[b] \notin {t, NoThread}

\* C2: when the reference is replaced only while the referenced Buffer's
\* mutex is free, then from the return of lock() (or of a try_lock() that
\* returned true) until the caller's unlock(), owning_buffer is exactly the
\* Buffer whose mutex the caller holds, and it is not replaced meanwhile.
C2_StableWhileHeld ==
    \A t \in Threads :
        lpc[t] = "held" =>
            /\ Held(t) = {buffer}
            /\ ~swappedHeld[t]

\* A try_lock() that returned true after a replacement during the call.
C2_Witness ==
    \E t \in Threads :
        /\ lpc[t] = "held" /\ via[t] = "try" /\ swappedInCall[t]
        /\ Held(t) = {buffer}

\* C3: try_lock() answers only for the Buffer of its last re-load.  It returns
\* true only with that Buffer's mutex held by the caller, and false only when
\* the attempt on that Buffer failed, the caller then holding no Buffer mutex.
\* A result on a Buffer that is no longer the referenced one is never returned:
\* a stale success is released before the retry, a stale failure is retried.
C3_TryLockStable ==
    \A t \in Threads :
        /\ (lpc[t] = "held" /\ via[t] = "try") =>
                success[t] /\ backing[t] = latest[t] /\ Held(t) = {latest[t]}
        /\ lpc[t] = "failed" =>
                ~success[t] /\ backing[t] = latest[t] /\ Held(t) = {}
        /\ lpc[t] = "try_acquire" => Held(t) = {}
        /\ lpc[t] = "try_check" =>
                Held(t) = (IF success[t] THEN {backing[t]} ELSE {})
        /\ lpc[t] = "try_release" =>
                success[t] /\ backing[t] # latest[t] /\ Held(t) = {backing[t]}

\* A try_lock() that returned false on the Buffer referenced now, which another
\* thread holds, after the reference was replaced during the call.
C3_Witness ==
    \E t \in Threads :
        /\ lpc[t] = "failed" /\ swappedInCall[t]
        /\ latest[t] = buffer
        /\ mutex[latest[t]] \notin {t, NoThread}

\* C4: unlock() calls unlock() on the Buffer owning_buffer references at the
\* time of the call, which the caller does not hold afterwards; when the
\* reference was not replaced between the successful lock()/try_lock() and the
\* unlock(), that Buffer is the one acquired and the caller holds no Buffer
\* mutex afterwards.
C4_UnlockCurrent ==
    \A t \in Threads :
        lpc[t] = "released" =>
            /\ relTarget[t] = relOwning[t]
            /\ mutex[relTarget[t]] # t
            /\ (~swappedHeld[t] =>
                    /\ relTarget[t] = backing[t]
                    /\ Held(t) = {})

\* An unlock() of the Buffer a lock()/try_lock() acquired after a replacement.
C4_Witness ==
    \E t \in Threads :
        /\ lpc[t] = "released" /\ ~swappedHeld[t] /\ swappedInCall[t]
        /\ relTarget[t] = backing[t]
        /\ Held(t) = {}

\* C5: after SynchronizeGuestWithCycle(c1), a SynchronizeGuestWithCycle(c2)
\* with c2 # c1 has, when its wait is over and before it attaches its own
\* deferred copy to c2 and makes c2 the pending cycle, no deferred copy left
\* on any other cycle: c1's has completed.
C5_DeferredCopyBeforeNext ==
    \A t \in SyncThreads :
        spc[t] = "sgwc_attach" =>
            \A c \in Cycles \ {sarg[t]} : deps[c] = 0

\* C6 as claimed: the Buffer has at most one deferred guest copy that is
\* attached to a cycle and has not run, also when SynchronizeGuestWithCycle is
\* called again with the same cycle.
C6_AtMostOneDeferredCopy == SumDeps(deps, Cycles) <= 1

\* C6 as amended: every deferred guest copy of the Buffer that has not run is
\* attached to one cycle, the pending one (a call with the pending cycle itself
\* attaches one more copy to it); and a call installs a new pending cycle only
\* once the previous, different one has been waited on and cleared.
C6_DeferredCopiesOnPendingCycle ==
    /\ \A c \in Cycles :
           (deps[c] > 0 /\ cstate[c] \in {"pending", "signalled"}) => cycle = c
    /\ \A t \in SyncThreads :
           spc[t] = "sgwc_attach" => CycleLock(Snapshot) \in {NoCycle, sarg[t]}

\* Two deferred copies attached to the pending cycle by two calls with it.
C6_Witness == \E c \in Cycles : deps[c] = 2 /\ cycle = c /\ cstate[c] = "pending"

\* C7: every access to the host backing's contents, every guest/host copy and
\* every change of the pending cycle is made by a thread that owns the
\* Buffer's mutex: the thread running a deferred completion action, which is
\* inside SynchronizeGuest between its WaitOnFence and its copy, owns it.
C7_AccessUnderMutex ==
    \A c \in Cycles : cstate[c] = "completing_copy" => mutexOwner = FenceThread

\* C8: ~Buffer takes the Buffer's mutex, then waits for the pending cycle and
\* copies the host backing to the guest, and only then unmaps the mirror; a
\* destroyed Buffer's guest memory equals its host backing.
C8_DestructionOrder ==
    /\ bstate \in {"dtor_locked", "dtor_synced"} => mutexOwner = dthread
    /\ bstate \in {"live", "dying", "dtor_locked", "dtor_synced"} => mirrorMapped
    /\ bstate = "dtor_synced" =>
           /\ guestData = CopyToGuest(guestData, hostData)
           /\ CycleLock(Snapshot) = NoCycle
    /\ bstate = "destroyed" =>
           guestData = CopyToGuest(guestData, hostData) /\ ~mirrorMapped

\* A Buffer destroyed while GPU work on it was outstanding, whose guest memory
\* holds what the GPU wrote.
C8_Witness ==
    /\ bstate = "destroyed" /\ dtorFence
    /\ guestData = CopyToGuest(guestData, hostData)
    /\ \E i \in DOMAIN hostData : hostData[i] # 0

\* C9: while a BufferGuestSync attached by SynchronizeGuestWithCycle has not
\* run, the Buffer is not destroyed and its mirror stays mapped, whoever else
\* let go of it; the weak references (views, cycle) keep nothing alive.
C9_SyncKeepsBufferAlive ==
    (\E c \in Cycles : deps[c] > 0) =>
        /\ bstate = "live"
        /\ mirrorMapped

\* The Buffer held by a BufferGuestSync alone: its owner gone, its one view
\* destroyed (the dead weak reference still cached), no thread using it.
C9_Witness ==
    /\ \E c \in Cycles : deps[c] > 0
    /\ bref = 0 /\ Len(views) > 0 /\ LiveViews(views) = {}
    /\ \A t \in SyncThreads : spc[t] = "idle"
    /\ bstate = "live"

ViewTriple(v) == <<v.offset, v.range, v.format>>

\* C10: at most one live BufferView exists per (offset, range, format);
\* GetView returns a live view whose triple equals the request in every
\* component, the cached one when there is one.
C10_OneViewPerTriple ==
    /\ \A i, j \in LiveViews(views) :
           i # j => ViewTriple(views[i]) # ViewTriple(views[j])
    /\ \A t \in SyncThreads :
           sret[t] # 0 =>
               /\ sret[t] \in LiveViews(views)
               /\ ViewTriple(views[sret[t]]) = sreq[t]

\* A GetView that made a new view for a triple whose first view was released.
C10_Witness ==
    \E t \in SyncThreads :
        /\ sret[t] = 2
        /\ ~views[1].live
        /\ ViewTriple(views[1]) = ViewTriple(views[2])

\* C11: every BufferView that exists lies inside its Buffer, offset + range <=
\* size: a GetView whose range exceeds the Buffer's size fails and creates no
\* view.
C11_ViewsInRange ==
    \A i \in 1..Len(views) :
        views[i].offset + views[i].range <= BufferSize(mappings)

RECURSIVE Flat(_)
Flat(g) == IF g = <<>> THEN <<>> ELSE Head(g) \o Flat(Tail(g))

\* C14: Buffer::Buffer allocates a backing of the summed size of the regions,
\* then sets up the mirror, then copies; when it returns, the backing is the
\* guest regions' bytes one after the other in region order, no cycle is
\* pending and no view is cached; nothing uses the Buffer before that.
C14_Construction ==
    /\ bstate \in {"allocated", "mirrored", "constructed"} =>
           Len(hostData) = BufferSize(mappings)
    /\ bstate \in {"unbuilt", "allocated"} => ~mirrorMapped
    /\ bstate = "mirrored" =>
           mirrorMapped /\ \A i \in DOMAIN hostData : hostData[i] = Uninit
    /\ bstate = "constructed" =>
           /\ hostData = Flat(guestData)
           /\ mirrorMapped
           /\ cycle = NoCycle
           /\ views = <<>>
    /\ bstate \in {"unbuilt", "allocated", "mirrored", "constructed"} =>
           /\ mutexOwner = NoThread
           /\ \A t \in SyncThreads : spc[t] = "idle"

\* A Buffer just constructed over two regions of different sizes and contents.
C14_Witness ==
    /\ bstate = "constructed"
    /\ Len(mappings) = 2 /\ mappings[1].size # mappings[2].size
    /\ guestData[1][1] # guestData[2][1]

\* C13: WaitOnFence() with a live pending cycle returns only once that
\* cycle's GPU work has completed, and no cycle is pending on return; without
\* a live pending cycle it does not wait and changes nothing, so a second
\* WaitOnFence() right after the first never waits.
C13_WaitOnFence ==
    \A t \in SyncThreads :
        /\ (spc[t] = "locked" /\ CycleLock(Snapshot) = NoCycle) =>
               WaitOnFence(Snapshot, t) = Snapshot
        /\ spc[t] = "waited" =>
               /\ CycleLock(Snapshot) = NoCycle
               /\ WaitOnFence(Snapshot, t) = Snapshot
               /\ waited[t] # NoCycle =>
                      /\ cstate[waited[t]] \notin {"pending"} \cup Completing
                      /\ deps[waited[t]] = 0
                      /\ cycle = NoCycle

\* A WaitOnFence() that found a cycle pending whose deferred copy was
\* attached, and returned after it.
C13_Witness ==
    \E t \in SyncThreads :
        /\ spc[t] = "waited" /\ waited[t] # NoCycle
        /\ cstate[waited[t]] = "done"
        /\ \E i \in DOMAIN hostData : hostData[i] # 0

\* C15: SynchronizeHostWithCycle(c) waits exactly when a cycle other than c is
\* pending, and then returns with that cycle's GPU work complete and no cycle
\* pending; with c itself pending, or none, it copies the guest to the host
\* without waiting and leaves the pending cycle as it was; it never makes c
\* the pending cycle and attaches nothing to c.
C15_HostWithCycle ==
    \A t \in SyncThreads : \A c \in Cycles :
        (spc[t] = "locked" /\ cstate[c] # "dead") =>
            LET R == SynchronizeHostWithCycle(Snapshot, c, t)
                pending == CycleLock(Snapshot)
            IN  /\ pending \in {NoCycle, c} =>
                       ~R.blocked /\ R.cycle = cycle /\ R.cstate = cstate
                /\ pending \notin {NoCycle, c} =>
                       /\ R.blocked <=> cstate[pending] \in {"pending"} \cup Completing
                       /\ ~R.blocked =>
                              R.cycle = NoCycle /\ R.cstate[pending] = "done"
                /\ ~R.blocked =>
                       /\ R.host = Flat(R.guest)
                       /\ R.deps[c] = deps[c]
                       /\ R.cycle = c => cycle = c

\* A SynchronizeHostWithCycle(c) that has returned, without a wait, while c is
\* the pending cycle and its GPU work is outstanding.
C15_Witness ==
    \E t \in SyncThreads :
        /\ spc[t] = "shwc_set" /\ cycle = sarg[t]
        /\ cstate[sarg[t]] = "pending"
        /\ hostData = Flat(guestData)
        /\ \E i \in DOMAIN hostData : hostData[i] # 0

C17_GetViewPrunes ==
    [][\A t \in SyncThreads : \A tr \in Triples :
           (DoGetView(t, tr[1], tr[2], tr[3])
               /\ FindView(views, tr[1], tr[2], tr[3]) = 0) =>
                  /\ \A i \in 1..Len(views') : views'[i].live
                  /\ Len(views') <= Cardinality(LiveViews(views)) + 1]_vars

\* C18: for several regions, the spans passed to the mirror service start at
\* the first region's start aligned down and end at the last region's end
\* aligned up, the regions between are passed unchanged, the spans cover no
\* fewer bytes than the regions, and the logical mirror has the regions' total
\* size, starts at the first region's distance from its aligned start and
\* lies inside the aligned mapping.
C18_MirrorAlignment ==
    (Len(mappings) > 1 /\ mirrorMapped) =>
        LET n == Len(mappings)
            front == mappings[1]
            back == mappings[n]
            last == alignedMappings[Len(alignedMappings)]
        IN  /\ Len(alignedMappings) = n
            /\ alignedMappings[1].addr = AlignDown(front.addr, PageSize)
            /\ last.addr + last.size = AlignUp(back.addr + back.size, PageSize)
            /\ \A k \in 2..(n - 1) : alignedMappings[k] = mappings[k]
            /\ BufferSize(alignedMappings) >= BufferSize(mappings)
            /\ mirror.size = BufferSize(mappings)
            /\ mirror.offset = front.addr - AlignDown(front.addr, PageSize)
            /\ mirror.offset + mirror.size <= BufferSize(alignedMappings)

\* C20: at every step of a lock() or try_lock() call the caller holds at most
\* one Buffer mutex, its present candidate's, and none when it is about to
\* acquire a candidate; two threads that have returned successfully hold the
\* mutexes of different Buffers, each its own, so never the same Buffer's
\* mutex at the same time.
C20_OneMutexPerCall ==
    \A t \in Threads :
        /\ lpc[t] \in {"lock_acquire", "try_acquire"} => Held(t) = {}
        /\ lpc[t] \in {"lock_check", "lock_release", "try_check", "try_release"} =>
               Held(t) \subseteq {backing[t]}
        /\ lpc[t] = "lock_check" => Held(t) = {backing[t]}
        /\ \A u \in Threads \ {t} :
               (lpc[t] = "held" /\ lpc[u] = "held") =>
                   /\ mutex[backing[t]] = t /\ mutex[backing[u]] = u
                   /\ backing[t] # backing[u]
        /\ lpc[t] = "held" => mutex[backing[t]] = t

\* A lock() that released a stale candidate and now waits for the referenced
\* Buffer, whose mutex another thread got by a lock() or try_lock() that
\* returned successfully.
C20_Witness ==
    \E t \in Threads : \E u \in Threads \ {t} :
        /\ lpc[t] = "held" /\ backing[t] = buffer /\ mutex[buffer] = t
        /\ lpc[u] = "lock_acquire" /\ swappedInCall[u]
        /\ backing[u] = buffer /\ Held(u) = {}

C19_ReturnUnderChurn ==
    \A t \in Threads :
        lpc[t] \in CallPcs ~> lpc[t] \in {"held", "failed"}

====
